---- MODULE Spec2Model ----
(***************************************************************************)
(* The topic-queue and rate-limit control loop of the Twitter bot          *)
(* (src/app.py, class TwitterBot): run(), refresh_topics(),                *)
(* check_rate_limits(), generate_topics() and the error handling around    *)
(* them, with the one-time setup of __init__.  The language model, the     *)
(* Twitter client and the operator are the environment: their answers are  *)
(* drawn from small sets.                                                  *)
(*                                                                         *)
(* Representation.                                                         *)
(*  - A datetime is a day number, day 0 being 1 January of a leap year;    *)
(*    the calendar repeats every four years.  The code reads a datetime    *)
(*    only through .month, so the loop's clock keeps the start date and,   *)
(*    once a month boundary has been crossed, the first day of the month   *)
(*    it is in.                                                            *)
(*  - The text of a model response is a sequence of tokens: "[", "]", ",", *)
(*    "nl" (newline), "sp" (blank), "strA"/"strB" (the JSON string         *)
(*    literals "A" and "B", quotes included) and "word" (bare text).       *)
(*  - A topic is a sequence of text pieces.                                *)
(***************************************************************************)
EXTENDS Integers, Sequences, FiniteSets, TLC

VARIABLES
    pc,               \* position of run() / of the function under test
    category,         \* self.category
    current_topics,   \* self.current_topics
    tweet_count,      \* self.tweet_count
    last_tweet_time,  \* self.last_tweet_time
    now,              \* datetime.now()
    allowed,          \* value returned by the last check_rate_limits()
    brainstorm,       \* arguments and model response of the last generate_topics()
    current_topic,    \* run()'s local current_topic
    tweet,            \* run()'s local tweet
    exc,              \* exception raised last, "none" when handled
    batch,            \* history: list returned by the last refill
    popped,           \* history: topics popped since the last refill
    hour_slept,       \* history: time.sleep(3600) has returned since the last
                      \* post was recorded (TRUE before the first post)
    month_posts,      \* history: posts recorded since now entered its month
    environ,          \* os.environ after load_dotenv(): the four credentials
    fatal,            \* the exception that left TwitterBot(), None if none
    failing           \* environment: the services and input() may still raise

vars == <<pc, category, current_topics, tweet_count, last_tweet_time, now,
          allowed, brainstorm, current_topic, tweet, exc, batch, popped,
          hour_slept, month_posts, environ, fatal, failing>>

(***************************************************************************)
(* Bounds of the model.                                                    *)
(***************************************************************************)
MaxPosts == 2          \* Spec: posts recorded in one run
MaxOver == 2           \* SpecQuota: posts recorded beyond the monthly limit
MaxMonths == 1         \* month boundaries crossed in one run
MaxContentLen == 5     \* tokens in a model response (SpecTopics)
MaxRequested == 2      \* largest num_topics besides the default (SpecTopics)
MaxExcess == 2         \* characters of a draft beyond the length limit

(***************************************************************************)
(* Program constants.                                                      *)
(***************************************************************************)
MonthlyLimit == 1500
AnchorDays == 30
DefaultNumTopics == 10
TweetLimit == 280
KeepChars == 277
EllipsisLen == 3

None == <<>>

(***************************************************************************)
(* Calendar: datetime.month and datetime - timedelta(days).                *)
(***************************************************************************)
DaysInCycle == 366 + 3 * 365

DaysBefore(leap) ==
    IF leap THEN <<0, 31, 60, 91, 121, 152, 182, 213, 244, 274, 305, 335, 366>>
            ELSE <<0, 31, 59, 90, 120, 151, 181, 212, 243, 273, 304, 334, 365>>

\* day of the year (0-based) and leap flag of a day number
YearDay(d) ==
    LET c == d % DaysInCycle
    IN  IF c < 366 THEN [leap |-> TRUE, doy |-> c]
                   ELSE [leap |-> FALSE, doy |-> (c - 366) % 365]

Month(d) ==
    LET yd == YearDay(d)
        cum == DaysBefore(yd.leap)
    IN  CHOOSE m \in 1..12 : cum[m] <= yd.doy /\ yd.doy < cum[m + 1]

MinusDays(d, n) == d - n

\* first day of the month after the month of d
NextMonthStart(d) ==
    LET yd == YearDay(d)
        cum == DaysBefore(yd.leap)
    IN  d - yd.doy + cum[Month(d) + 1]

(***************************************************************************)
(* check_rate_limits (src/app.py 209-217).                                 *)
(***************************************************************************)
\* variant: the comparison of line 212 written ">"
check_rate_limits_strict(count, t, last) ==
    ~(count > MonthlyLimit /\ Month(t) = Month(last))

check_rate_limits(count, t, last) ==
    IF count >= MonthlyLimit /\ Month(t) = Month(last) THEN FALSE ELSE TRUE

(***************************************************************************)
(* generate_topics (src/app.py 77-129).                                    *)
(***************************************************************************)
Whitespace == {"nl", "sp"}
Strings == {"strA", "strB"}

RECURSIVE SkipWs(_, _)
\* first index >= i of s that holds no whitespace (Len(s) + 1 when none)
SkipWs(s, i) ==
    IF i <= Len(s) /\ s[i] \in Whitespace THEN SkipWs(s, i + 1) ELSE i

RECURSIVE LastNonWs(_, _)
LastNonWs(s, i) ==
    IF i >= 1 /\ s[i] \in Whitespace THEN LastNonWs(s, i - 1) ELSE i

\* str.strip()
Strip(s) == SubSeq(s, SkipWs(s, 1), LastNonWs(s, Len(s)))

StartsWith(s, tok) == Len(s) >= 1 /\ s[1] = tok

\* re.search(r"\[.*\]", content, re.DOTALL): leftmost "[", longest match
RegexMatch(s) ==
    LET opens == {i \in 1..Len(s) : s[i] = "["}
        first == CHOOSE i \in opens : \A j \in opens : i <= j
        closes == {i \in 1..Len(s) : s[i] = "]" /\ i > first}
        last == CHOOSE i \in closes : \A j \in closes : j <= i
    IN  IF opens = {} \/ closes = {} THEN [found |-> FALSE, text |-> <<>>]
        ELSE [found |-> TRUE, text |-> SubSeq(s, first, last)]

\* value of a JSON string literal: the quotes are dropped
Unquote(tok) == IF tok = "strA" THEN "A" ELSE "B"

RECURSIVE JsonValueEnd(_, _)
RECURSIVE JsonElemsEnd(_, _, _)
\* index after the JSON value that starts at s[i], 0 when there is none
JsonValueEnd(s, i) ==
    IF i > Len(s) THEN 0
    ELSE IF s[i] \in Strings THEN i + 1
    ELSE IF s[i] = "[" THEN JsonElemsEnd(s, SkipWs(s, i + 1), TRUE)
    ELSE 0

\* index after the "]" that closes the array whose next element starts at s[i]
JsonElemsEnd(s, i, first) ==
    IF i > Len(s) THEN 0
    ELSE IF first /\ s[i] = "]" THEN i + 1
    ELSE LET v == JsonValueEnd(s, i)
             j == SkipWs(s, v)
         IN  IF v = 0 \/ j > Len(s) THEN 0
             ELSE IF s[j] = "]" THEN j + 1
             ELSE IF s[j] = "," THEN JsonElemsEnd(s, SkipWs(s, j + 1), FALSE)
             ELSE 0

\* a decoded element: a string's value, or the tokens of a nested array
JsonElement(s, i, e) ==
    IF s[i] \in Strings THEN <<Unquote(s[i])>> ELSE SubSeq(s, i, e - 1)

RECURSIVE JsonElems(_, _)
\* the elements of the (well-formed) array whose next element starts at s[i]
JsonElems(s, i) ==
    IF s[i] = "]" THEN <<>>
    ELSE LET v == JsonValueEnd(s, i)
             j == SkipWs(s, v)
         IN  <<JsonElement(s, i, v)>> \o
             (IF s[j] = "," THEN JsonElems(s, SkipWs(s, j + 1)) ELSE <<>>)

\* json.loads of a text: ok is FALSE for JSONDecodeError
json_loads(s) ==
    LET i == SkipWs(s, 1)
        e == JsonValueEnd(s, i)
        ok == e # 0 /\ SkipWs(s, e) = Len(s) + 1
    IN  IF ~ok THEN [ok |-> FALSE, value |-> <<>>]
        ELSE IF s[i] = "[" THEN [ok |-> TRUE, value |-> JsonElems(s, SkipWs(s, i + 1))]
        ELSE [ok |-> TRUE, value |-> <<Unquote(s[i])>>]

RECURSIVE SplitLines(_)
\* content.split("\n")
SplitLines(s) ==
    LET nls == {i \in 1..Len(s) : s[i] = "nl"}
        k == CHOOSE i \in nls : \A j \in nls : i <= j
    IN  IF nls = {} THEN <<s>>
        ELSE <<SubSeq(s, 1, k - 1)>> \o SplitLines(SubSeq(s, k + 1, Len(s)))

\* line.strip('"-'): a quote at either end of the line is dropped
StripQuotes(line) ==
    [i \in 1..Len(line) |->
        IF line[i] \notin Strings THEN line[i]
        ELSE IF Len(line) = 1 THEN Unquote(line[i])
        ELSE IF i = 1 THEN Unquote(line[i]) \o "\""
        ELSE IF i = Len(line) THEN "\"" \o Unquote(line[i])
        ELSE "\"" \o Unquote(line[i]) \o "\""]

RECURSIVE KeepLines(_)
\* the comprehension of lines 99-105
KeepLines(lines) ==
    IF lines = <<>> THEN <<>>
    ELSE LET l == Strip(Head(lines))
         IN  (IF l # <<>> /\ ~StartsWith(l, "[") /\ ~StartsWith(l, "]")
              THEN <<StripQuotes(l)>> ELSE <<>>) \o KeepLines(Tail(lines))

\* topics[:num_topics]
Take(s, n) == SubSeq(s, 1, IF n < Len(s) THEN n ELSE Len(s))

\* the list returned on JSONDecodeError (lines 115-126)
CannedTopics(cat) ==
    << <<cat, "trends 2024">>,
       <<"Latest developments in", cat>>,
       <<"Future of", cat>>,
       <<"How", cat, "is changing">>,
       <<cat, "best practices">>,
       <<cat, "tips and tricks">>,
       <<"Understanding", cat>>,
       <<cat, "innovations">>,
       <<cat, "challenges">>,
       <<cat, "opportunities">> >>

\* a response of the model: llm.invoke raises, or returns a text
Raises == [raises |-> TRUE, content |-> <<>>]
Returns(text) == [raises |-> FALSE, content |-> text]

\* variant: every failure, a raising call included, gives the canned list
generate_topics_canned_on_raise(cat, num_topics, response) ==
    [raised |-> FALSE, path |-> "canned", topics |-> CannedTopics(cat)]

\* generate_topics(category, num_topics) given the model's response:
\* raised is TRUE when the call raises, path names the return statement taken
generate_topics(cat, num_topics, response) ==
    IF response.raises
    THEN [raised |-> TRUE, path |-> "raise", topics |-> <<>>]
    ELSE LET content == Strip(response.content)
             m == RegexMatch(content)
             text == IF StartsWith(content, "[") THEN content ELSE m.text
             parsed == json_loads(text)
         IN  IF ~StartsWith(content, "[") /\ ~m.found
             THEN [raised |-> FALSE, path |-> "lines",
                   topics |-> Take(KeepLines(SplitLines(content)), num_topics)]
             ELSE IF parsed.ok
             THEN [raised |-> FALSE, path |-> "json", topics |-> parsed.value]
             ELSE [raised |-> FALSE, path |-> "canned", topics |-> CannedTopics(cat)]

(***************************************************************************)
(* One-time setup: TwitterBot.__init__ and load_environment                *)
(* (src/app.py 25-50), the three constructors (52-75, 155-197) and the     *)
(* handler of __main__ (278-284).                                          *)
(***************************************************************************)
\* the names read on lines 40-43
EnvVars == {"TWITTER_CONSUMER_KEY", "TWITTER_CONSUMER_SECRET",
            "TWITTER_ACCESS_TOKEN", "TWITTER_ACCESS_TOKEN_SECRET"}

\* what os.getenv gives for a name: None ("unset"), the empty string, or a
\* non-empty string ("value")
EnvValues == {"unset", "", "value"}

FullEnviron == [k \in EnvVars |-> "value"]

\* variant: line 46 written "if v is None"
missing_vars_unset_only(env) == {k \in EnvVars : env[k] = "unset"}

\* line 46: the names whose value is falsy
missing_vars(env) == {k \in EnvVars : env[k] \in {"unset", ""}}

NoCall == [category |-> "", num_topics |-> 0, response |-> Raises]

\* the state after TwitterBot() (lines 25-33), before run()
Constructed(start) ==
    /\ now = start
    /\ tweet_count = 0
    /\ last_tweet_time = MinusDays(start, AnchorDays)
    /\ current_topics = <<>>
    /\ category = ""
    /\ allowed = TRUE
    /\ brainstorm = NoCall
    /\ current_topic = None
    /\ tweet = None
    /\ exc = "none"
    /\ batch = <<>>
    /\ popped = <<>>
    /\ hour_slept = TRUE
    /\ month_posts = 0
    /\ environ = FullEnviron
    /\ fatal = None
    /\ failing = TRUE

\* an exception leaves TwitterBot(): __main__ logs it and raises it again
\* (lines 282-284), the process ends
FatalInit(error, names) ==
    /\ pc' = "FatalInit"
    /\ exc' = error
    /\ fatal' = [error |-> error, names |-> names]

\* line 26, load_environment (35-50)
LoadEnvironment ==
    /\ pc = "load_environment"
    /\ IF missing_vars(environ) # {}
       THEN FatalInit("ValueError", missing_vars(environ))
       ELSE /\ pc' = "setup_twitter_client"
            /\ UNCHANGED <<exc, fatal>>
    /\ UNCHANGED <<category, current_topics, tweet_count, last_tweet_time, now,
                   allowed, brainstorm, current_topic, tweet, batch, popped,
                   hour_slept, month_posts, environ, failing>>

\* a constructor of lines 27-29 returns, or raises and the exception is logged
\* and raised again (lines 64-66, 73-75, 195-197)
Construct(at, then) ==
    /\ pc = at
    /\ \E ok \in BOOLEAN :
          IF ok
          THEN /\ pc' = then
               /\ UNCHANGED <<exc, fatal>>
          ELSE FatalInit("SetupError", {})
    /\ UNCHANGED <<category, current_topics, tweet_count, last_tweet_time, now,
                   allowed, brainstorm, current_topic, tweet, batch, popped,
                   hour_slept, month_posts, environ, failing>>

\* line 27, setup_twitter_client (52-66)
SetupTwitterClient == Construct("setup_twitter_client", "setup_llm")

\* line 28, setup_llm (68-75)
SetupLlm == Construct("setup_llm", "setup_agent")

\* line 29, setup_agent (155-197), then lines 30-33 and bot.run() (line 281)
SetupAgent == Construct("setup_agent", "AwaitingCategory")

(***************************************************************************)
(* The try/except of run() (src/app.py 237, 270-275).                      *)
(***************************************************************************)
\* positions inside the try block
TryPcs == {"CheckQuota", "QuotaSleep", "RefreshTopics", "PopTopic",
           "GenerateTweet", "PostTweet", "RecordSuccess", "Prompt",
           "NewCategory", "HourSleep"}
\* positions of run() outside the try block
OutsidePcs == {"AwaitingCategory", "ErrorSleep"}
\* run() has returned ("Stopped") or an exception has left it ("Escaped")
FinalPcs == {"Stopped", "Escaped"}

\* the exceptions of the loop's steps, all subclasses of Exception: raised by
\* generate_topics, list.pop, generate_tweet, post_tweet and input
Errors == {"GenerationError", "IndexError", "DraftError", "PublishError",
           "EOFError"}

\* variant: the handler of line 273 catching IndexError only
except_clause_narrow(e) ==
    IF e = "KeyboardInterrupt" THEN "Stopped"
    ELSE IF e = "IndexError" THEN "ErrorSleep"
    ELSE "Escaped"

\* where run() goes when e is raised inside the try block (lines 270-275)
except_clause(e) ==
    IF e = "KeyboardInterrupt" THEN "Stopped"
    ELSE IF e \in Errors THEN "ErrorSleep"
    ELSE "Escaped"

\* e is raised at position at
Raise(e, at) ==
    /\ exc' = e
    /\ pc' = IF at \in TryPcs THEN except_clause(e) ELSE "Escaped"

\* the outcomes of a call to the model, the client or input(): it returns
\* (TRUE) or raises (FALSE); raising stops once the environment has settled
Outcomes == IF failing THEN BOOLEAN ELSE {TRUE}

(***************************************************************************)
(* generate_tweet's length rule (src/app.py 147-149).  A text is known by  *)
(* the number of leading characters of the model's stripped answer it      *)
(* keeps and by whether "..." follows them.                                *)
(***************************************************************************)
TextLen(text) == text.kept + (IF text.ellipsis THEN EllipsisLen ELSE 0)

\* variant: line 149 cutting at the limit, tweet[:280] + "..."
truncate_at_limit(n) ==
    IF n > TweetLimit THEN [kept |-> TweetLimit, ellipsis |-> TRUE]
                      ELSE [kept |-> n, ellipsis |-> FALSE]

\* lines 148-149, n being len(tweet) after line 147
truncate(n) ==
    IF n > TweetLimit THEN [kept |-> KeepChars, ellipsis |-> TRUE]
                      ELSE [kept |-> n, ellipsis |-> FALSE]

(***************************************************************************)
(* The categories the operator types and the responses the model gives to  *)
(* generate_topics, for Spec and for SpecQuota.                            *)
(***************************************************************************)
Categories == {"fitness", "space exploration"}

\* model responses: failure, "[]", ["A","B"], a broken array, two lines
Responses ==
    {Raises,
     Returns(<<"[", "]">>),
     Returns(<<"sp", "[", "strA", ",", "strB", "]", "nl">>),
     Returns(<<"[", "strA", ",">>),
     Returns(<<"word", "nl", "strB">>)}

QuotaCategories == {"fitness"}

QuotaResponses == {Returns(<<"[", "strA", "]">>)}

\* what generate_topics(self.category) of line 222 does on each category and
\* response, computed once
Refills ==
    [c \in Categories \cup QuotaCategories |->
        [r \in Responses \cup QuotaResponses |->
            generate_topics(c, DefaultNumTopics, r)]]

(***************************************************************************)
(* run() (src/app.py 225-275).                                             *)
(***************************************************************************)
\* lines 230-234: the first category is read
ReadCategory(cats) ==
    /\ pc = "AwaitingCategory"
    /\ \E c \in cats : category' = c
    /\ pc' = "CheckQuota"
    /\ UNCHANGED <<current_topics, tweet_count, last_tweet_time, now, allowed,
                   brainstorm, current_topic, tweet, exc, batch, popped,
                   hour_slept, month_posts, environ, fatal, failing>>

\* line 238: the top of an iteration; the locals of the iteration before are
\* dead (each is assigned before it is read) and are forgotten here
CheckQuota ==
    /\ pc = "CheckQuota"
    /\ allowed' = check_rate_limits(tweet_count, now, last_tweet_time)
    /\ pc' = IF allowed' THEN "RefreshTopics" ELSE "QuotaSleep"
    /\ current_topic' = None
    /\ tweet' = None
    /\ UNCHANGED <<category, current_topics, tweet_count, last_tweet_time, now,
                   brainstorm, exc, batch, popped,
                   hour_slept, month_posts, environ, fatal, failing>>

\* variant: line 240 without its "continue"
after_sleep_fallthrough(at) ==
    IF at = "QuotaSleep" THEN "RefreshTopics" ELSE "CheckQuota"

\* where run() goes after time.sleep(3600): "continue" on line 240, the end
\* of the loop body after line 268
after_sleep(at) == "CheckQuota"

\* lines 239-240 and 268: time.sleep(3600), then the top of the loop
Sleep3600 ==
    /\ pc \in {"QuotaSleep", "HourSleep"}
    /\ pc' = after_sleep(pc)
    /\ hour_slept' = TRUE
    /\ UNCHANGED <<category, current_topics, tweet_count, last_tweet_time, now,
                   allowed, brainstorm, current_topic, tweet, exc, batch,
                   popped, month_posts, environ, fatal, failing>>

\* variant: refresh_topics without the test of line 221
refresh_always(queue, got) == got.topics

\* variant: refresh_topics with the test of line 221 inverted
refresh_when_pending(queue, got) == IF queue # <<>> THEN got.topics ELSE queue

\* the list refresh_topics leaves in current_topics (lines 221-222), got being
\* what generate_topics returns
refresh_topics(queue, got) == IF queue = <<>> THEN got.topics ELSE queue

\* the responses the model may give: any of rs, and once the environment has
\* settled those from which generate_topics returns at least one topic
Offered(rs, cat) ==
    IF failing THEN rs
    ELSE {r \in rs : ~Refills[cat][r].raised /\ Refills[cat][r].topics # <<>>}

\* line 243, refresh_topics (219-223)
RefreshTopics(responses) ==
    /\ pc = "RefreshTopics"
    /\ \E r \in Offered(responses, category) :
          LET got == Refills[category][r]
              called == current_topics = <<>>
          IN  /\ brainstorm' = IF called
                                THEN [category |-> category,
                                      num_topics |-> DefaultNumTopics,
                                      response |-> r]
                                ELSE brainstorm
              /\ IF called /\ got.raised
                 THEN /\ Raise("GenerationError", pc)
                      /\ UNCHANGED <<current_topics, batch, popped>>
                 ELSE /\ current_topics' = refresh_topics(current_topics, got)
                      /\ batch' = IF called THEN got.topics ELSE batch
                      /\ popped' = IF called THEN <<>> ELSE popped
                      /\ pc' = "PopTopic"
                      /\ UNCHANGED exc
    /\ UNCHANGED <<category, tweet_count, last_tweet_time, now, allowed,
                   current_topic, tweet,
                   hour_slept, month_posts, environ, fatal, failing>>

\* variant: pop() without the index 0
pop_last(q) == [item |-> q[Len(q)], rest |-> SubSeq(q, 1, Len(q) - 1)]

\* list.pop(0) of a non-empty list
pop_first(q) == [item |-> Head(q), rest |-> Tail(q)]

\* line 246
PopTopic ==
    /\ pc = "PopTopic"
    /\ IF current_topics = <<>>
       THEN /\ Raise("IndexError", pc)
            /\ UNCHANGED <<current_topics, current_topic, popped>>
       ELSE /\ current_topic' = pop_first(current_topics).item
            /\ current_topics' = pop_first(current_topics).rest
            /\ popped' = Append(popped, pop_first(current_topics).item)
            /\ pc' = "GenerateTweet"
            /\ UNCHANGED exc
    /\ UNCHANGED <<category, tweet_count, last_tweet_time, now, allowed,
                   brainstorm, tweet, batch,
                   hour_slept, month_posts, environ, fatal, failing>>

\* line 250, generate_tweet (131-153): the model answers with a text of n
\* characters after strip(), or the call raises
GenerateTweet(lengths) ==
    /\ pc = "GenerateTweet"
    /\ \E ok \in Outcomes, n \in lengths :
          IF ok
          THEN /\ tweet' = [topic |-> current_topic, context |-> category,
                            drafted |-> n, text |-> truncate(n)]
               /\ pc' = "PostTweet"
               /\ UNCHANGED exc
          ELSE /\ Raise("DraftError", pc)
               /\ UNCHANGED tweet
    /\ UNCHANGED <<category, current_topics, tweet_count, last_tweet_time, now,
                   allowed, brainstorm, current_topic, batch, popped,
                   hour_slept, month_posts, environ, fatal, failing>>

\* line 251, post_tweet (199-207)
PostTweet ==
    /\ pc = "PostTweet"
    /\ \E ok \in Outcomes :
          IF ok
          THEN /\ pc' = "RecordSuccess"
               /\ UNCHANGED exc
          ELSE Raise("PublishError", pc)
    /\ UNCHANGED <<category, current_topics, tweet_count, last_tweet_time, now,
                   allowed, brainstorm, current_topic, tweet, batch, popped,
                   hour_slept, month_posts, environ, fatal, failing>>

\* variant: line 254 missing
record_count_only(count, last, t) == [count |-> count + 1, last |-> last]

\* variant: the count starting again in a new month
record_post_monthly(count, last, t) ==
    [count |-> IF Month(t) = Month(last) THEN count + 1 ELSE 1, last |-> t]

\* lines 254-255
record_post(count, last, t) == [count |-> count + 1, last |-> t]

RecordSuccess(cap) ==
    /\ pc = "RecordSuccess"
    /\ tweet_count < cap
    /\ last_tweet_time' = record_post(tweet_count, last_tweet_time, now).last
    /\ tweet_count' = record_post(tweet_count, last_tweet_time, now).count
    /\ pc' = "Prompt"
    /\ hour_slept' = FALSE
    /\ month_posts' = month_posts + 1
    /\ UNCHANGED <<category, current_topics, now, allowed, brainstorm,
                   current_topic, tweet, exc, batch, popped,
                   environ, fatal, failing>>

\* str.lower()
Lower(line) == IF line = "CHANGE CATEGORY" THEN "change category" ELSE line

\* what input() gives: a line, or "eof" for input() raising EOFError
OperatorLines == {"", "change category", "CHANGE CATEGORY", "eof"}

\* what input() gives once the environment has settled: a line
Typed(lines) == IF failing THEN lines ELSE lines \ {"eof"}

\* lines 258-263
Prompt ==
    /\ pc = "Prompt"
    /\ \E line \in Typed(OperatorLines) :
          IF line = "eof"
          THEN Raise("EOFError", pc)
          ELSE /\ pc' = IF Lower(line) = "change category"
                        THEN "NewCategory" ELSE "HourSleep"
               /\ UNCHANGED exc
    /\ UNCHANGED <<category, current_topics, tweet_count, last_tweet_time, now,
                   allowed, brainstorm, current_topic, tweet, batch, popped,
                   hour_slept, month_posts, environ, fatal, failing>>

\* variant: line 265 missing
force_refresh_missing(queue) == queue

\* line 265: self.current_topics = []
force_refresh(queue) == <<>>

\* lines 264-266
NewCategory(cats) ==
    /\ pc = "NewCategory"
    /\ \E c \in Typed(cats \cup {"eof"}) :
          IF c = "eof"
          THEN /\ Raise("EOFError", pc)
               /\ UNCHANGED <<category, current_topics>>
          ELSE /\ category' = c
               /\ current_topics' = force_refresh(current_topics)
               /\ pc' = "HourSleep"
               /\ UNCHANGED exc
    /\ UNCHANGED <<tweet_count, last_tweet_time, now, allowed, brainstorm,
                   current_topic, tweet, batch, popped,
                   hour_slept, month_posts, environ, fatal, failing>>

\* variant: the failed call tried again after the sleep of line 275
after_error_sleep_resume(e) ==
    IF e = "PublishError" THEN "PostTweet" ELSE "CheckQuota"

\* where run() goes after the sleep of line 275: the top of the loop
after_error_sleep(e) == "CheckQuota"

\* lines 274-275: the error is logged, time.sleep(60), next iteration
ErrorSleep ==
    /\ pc = "ErrorSleep"
    /\ pc' = after_error_sleep(exc)
    /\ exc' = "none"
    /\ UNCHANGED <<category, current_topics, tweet_count, last_tweet_time, now,
                   allowed, brainstorm, current_topic, tweet, batch, popped,
                   hour_slept, month_posts, environ, fatal, failing>>

\* the operator presses Ctrl+C: KeyboardInterrupt is raised where run() is
Interrupt ==
    /\ pc \in TryPcs \cup OutsidePcs
    /\ Raise("KeyboardInterrupt", pc)
    /\ UNCHANGED <<category, current_topics, tweet_count, last_tweet_time, now,
                   allowed, brainstorm, current_topic, tweet, batch, popped,
                   hour_slept, month_posts, environ, fatal, failing>>

\* positions where run() waits: sleeps, input(), the model and the client
BlockingPcs == {"QuotaSleep", "HourSleep", "ErrorSleep", "Prompt",
                "NewCategory", "RefreshTopics", "GenerateTweet", "PostTweet"}

\* a month boundary passes while run() waits; counts are the values of
\* tweet_count at which the model lets it pass
Tick(horizon, counts) ==
    /\ pc \in BlockingPcs
    /\ tweet_count \in counts
    /\ NextMonthStart(now) <= horizon
    /\ now' = NextMonthStart(now)
    /\ month_posts' = 0
    /\ UNCHANGED <<pc, category, current_topics, tweet_count, last_tweet_time,
                   allowed, brainstorm, current_topic, tweet, exc, batch,
                   popped, hour_slept, environ, fatal, failing>>

\* the steps of run() and of the clock
LoopWith(cats, responses, lengths, cap, horizon, counts) ==
    \/ ReadCategory(cats)
    \/ CheckQuota
    \/ Sleep3600
    \/ RefreshTopics(responses)
    \/ PopTopic
    \/ GenerateTweet(lengths)
    \/ PostTweet
    \/ RecordSuccess(cap)
    \/ Prompt
    \/ NewCategory(cats)
    \/ ErrorSleep
    \/ Tick(horizon, counts)

NextWith(cats, responses, lengths, cap, horizon, counts) ==
    \/ LoopWith(cats, responses, lengths, cap, horizon, counts)
    \/ Interrupt

(***************************************************************************)
(* Spec: the loop with the full environment, MaxPosts posts.               *)
(***************************************************************************)
\* lengths of the model's answer to generate_tweet: short, at the cut, at the
\* limit, and up to MaxExcess characters beyond it
DraftLengths ==
    {0, KeepChars, TweetLimit} \cup {TweetLimit + k : k \in 1..MaxExcess}

\* 1 March and 31 March of a year that is no leap year
FirstOfMarch == 366 + 59
LastOfMarch == 366 + 89
StartDays == {FirstOfMarch, LastOfMarch}

\* last day the clock reaches
Horizon == LastOfMarch + 30 * MaxMonths

Init ==
    /\ pc = "AwaitingCategory"
    /\ \E d \in StartDays : Constructed(d)

Next ==
    NextWith(Categories, Responses, DraftLengths, MaxPosts, Horizon,
             0..MaxPosts)

Spec == Init /\ [][Next]_vars

(***************************************************************************)
(* SpecQuota: the loop run up to the monthly limit and MaxOver posts       *)
(* beyond it, with one category, a model that answers ["A"] and drafts of  *)
(* one length.  A month boundary passes during the first MaxOver posts or  *)
(* from MaxOver posts before the limit on.                                 *)
(***************************************************************************)
QuotaLengths == {TweetLimit + 1}

QuotaTickCounts ==
    (0..MaxOver) \cup ((MonthlyLimit - MaxOver)..(MonthlyLimit + MaxOver))

InitQuota ==
    /\ pc = "AwaitingCategory"
    /\ Constructed(LastOfMarch)

NextQuota ==
    NextWith(QuotaCategories, QuotaResponses, QuotaLengths,
             MonthlyLimit + MaxOver, Horizon, QuotaTickCounts)

SpecQuota == InitQuota /\ [][NextQuota]_vars

(***************************************************************************)
(* SpecSetup: the process from its start, on every combination of the four *)
(* credentials being unset, empty or set, each constructor returning or    *)
(* raising, followed by the loop of SpecQuota's environment.               *)
(***************************************************************************)
InitSetup ==
    /\ pc = "load_environment"
    /\ environ \in [EnvVars -> EnvValues]
    /\ now = LastOfMarch
    /\ tweet_count = 0
    /\ last_tweet_time = MinusDays(LastOfMarch, AnchorDays)
    /\ current_topics = <<>>
    /\ category = ""
    /\ allowed = TRUE
    /\ brainstorm = NoCall
    /\ current_topic = None
    /\ tweet = None
    /\ exc = "none"
    /\ batch = <<>>
    /\ popped = <<>>
    /\ hour_slept = TRUE
    /\ month_posts = 0
    /\ fatal = None
    /\ failing = TRUE

NextSetup ==
    \/ LoadEnvironment
    \/ SetupTwitterClient
    \/ SetupLlm
    \/ SetupAgent
    \/ NextWith(QuotaCategories, QuotaResponses, QuotaLengths, MaxPosts,
                Horizon, 0..MaxPosts)

SpecSetup == InitSetup /\ [][NextSetup]_vars

(***************************************************************************)
(* SpecLive: the loop of Spec without KeyboardInterrupt, in an environment *)
(* that stops failing at some point, every step of the loop being taken    *)
(* when it stays possible.                                                 *)
(***************************************************************************)
\* from here on the model returns at least one topic, generate_tweet and
\* post_tweet return and input() returns a line
Settle ==
    /\ failing
    /\ pc \in TryPcs \cup OutsidePcs
    /\ failing' = FALSE
    /\ UNCHANGED <<pc, category, current_topics, tweet_count, last_tweet_time,
                   now, allowed, brainstorm, current_topic, tweet, exc, batch,
                   popped, hour_slept, month_posts, environ, fatal>>

\* a step of run(), without the clock
LoopStep ==
    \/ ReadCategory(Categories)
    \/ CheckQuota
    \/ Sleep3600
    \/ RefreshTopics(Responses)
    \/ PopTopic
    \/ GenerateTweet(DraftLengths)
    \/ PostTweet
    \/ RecordSuccess(MaxPosts)
    \/ Prompt
    \/ NewCategory(Categories)
    \/ ErrorSleep

NextLive ==
    \/ LoopStep
    \/ Tick(Horizon, 0..MaxPosts)
    \/ Settle

SpecLive == Init /\ [][NextLive]_vars /\ WF_vars(LoopStep)

(***************************************************************************)
(* SpecRate: check_rate_limits on its own, called right after construction *)
(* on every start date of the four-year cycle, and on counts around the    *)
(* limit with every pair of months.                                        *)
(***************************************************************************)
\* the start dates: every day of four years
AllStartDays == AnchorDays..(AnchorDays + DaysInCycle - 1)

\* the 15th of each month of a leap year, and of the January after it
MidMonths == {DaysBefore(TRUE)[m] + 14 : m \in 1..13}

RateCounts == {0, MonthlyLimit - 1, MonthlyLimit, MonthlyLimit + 1}

RateInputs ==
    {<<0, d, MinusDays(d, AnchorDays)>> : d \in AllStartDays}
    \cup (RateCounts \X MidMonths \X MidMonths)

InitRate ==
    /\ pc = "check_rate_limits"
    /\ \E in \in RateInputs :
          /\ tweet_count = in[1]
          /\ now = in[2]
          /\ last_tweet_time = in[3]
    /\ current_topics = <<>>
    /\ category = ""
    /\ allowed = TRUE
    /\ brainstorm = NoCall
    /\ current_topic = None
    /\ tweet = None
    /\ exc = "none"
    /\ batch = <<>>
    /\ popped = <<>>
    /\ hour_slept = TRUE
    /\ month_posts = 0
    /\ environ = FullEnviron
    /\ fatal = None
    /\ failing = TRUE

CallCheckRateLimits ==
    /\ pc = "check_rate_limits"
    /\ allowed' = check_rate_limits(tweet_count, now, last_tweet_time)
    /\ pc' = "returned"
    /\ UNCHANGED <<category, current_topics, tweet_count, last_tweet_time, now,
                   brainstorm, current_topic, tweet, exc, batch, popped,
                   hour_slept, month_posts, environ, fatal, failing>>

SpecRate == InitRate /\ [][CallCheckRateLimits]_vars

(***************************************************************************)
(* SpecTopics: generate_topics on its own, on every response of at most    *)
(* MaxContentLen tokens, for each category and requested count.            *)
(***************************************************************************)
TopicsAlphabet == {"[", "]", ",", "nl", "sp", "strA", "word"}

RECURSIVE Texts(_)
\* the token sequences of length at most n
Texts(n) ==
    IF n = 0 THEN {<<>>}
    ELSE LET shorter == Texts(n - 1)
         IN  shorter \cup {Append(t, a) : t \in shorter, a \in TopicsAlphabet}

TopicsResponses == {Raises} \cup {Returns(t) : t \in Texts(MaxContentLen)}

RequestedCounts == (1..MaxRequested) \cup {DefaultNumTopics}

InitTopics ==
    /\ pc = "generate_topics"
    /\ category \in Categories
    /\ brainstorm \in [category : {category}, num_topics : RequestedCounts,
                       response : TopicsResponses]
    /\ now = LastOfMarch
    /\ tweet_count = 0
    /\ last_tweet_time = MinusDays(LastOfMarch, AnchorDays)
    /\ current_topics = <<>>
    /\ allowed = TRUE
    /\ current_topic = None
    /\ tweet = None
    /\ exc = "none"
    /\ batch = <<>>
    /\ popped = <<>>
    /\ hour_slept = TRUE
    /\ month_posts = 0
    /\ environ = FullEnviron
    /\ fatal = None
    /\ failing = TRUE

\* self.current_topics = self.generate_topics(self.category, num_topics);
\* pc records the return statement taken
CallGenerateTopics ==
    /\ pc = "generate_topics"
    /\ LET got == generate_topics(brainstorm.category, brainstorm.num_topics,
                                  brainstorm.response)
       IN  /\ pc' = got.path
           /\ exc' = IF got.raised THEN "GenerationError" ELSE "none"
           /\ current_topics' = got.topics
    /\ UNCHANGED <<category, tweet_count, last_tweet_time, now, allowed,
                   brainstorm, current_topic, tweet, batch, popped,
                   hour_slept, month_posts, environ, fatal, failing>>

SpecTopics == InitTopics /\ [][CallGenerateTopics]_vars

(***************************************************************************)
(* Claims.                                                                 *)
(***************************************************************************)
IsPrefix(p, q) == Len(p) <= Len(q) /\ SubSeq(q, 1, Len(p)) = p

\* run() is in its loop, or has left it: the first category has been read
Running == category # ""

\* the last generate_topics call of the loop raised
LastCallRaised == brainstorm # NoCall /\ brainstorm.response.raises

\* the last generate_topics call of the loop got text that json.loads rejects
\* after a "[" was found in it
LastCallUnparseable ==
    /\ brainstorm # NoCall
    /\ ~brainstorm.response.raises
    /\ LET content == Strip(brainstorm.response.content)
           text == IF StartsWith(content, "[") THEN content
                   ELSE RegexMatch(content).text
       IN  /\ StartsWith(content, "[") \/ RegexMatch(content).found
           /\ ~json_loads(text).ok

\* C1 (Spec): whenever run() is about to pop the head of the queue (line 246)
\* the queue holds at least one topic, and the pop never raises IndexError.
C1_NeverPoppedEmpty ==
    /\ pc = "PopTopic" => current_topics # <<>>
    /\ exc # "IndexError"

\* C2 (Spec): an exception raised by a step of the loop is caught by the loop:
\* run() goes to the 60-second sleep, from there to the quota check of the
\* next iteration, and leaves the loop only on KeyboardInterrupt.
C2_ErrorsCaughtAtLoop ==
    [][/\ (exc' \in Errors /\ exc' # exc) => pc' = "ErrorSleep"
       /\ (pc = "ErrorSleep" /\ pc' # pc) =>
             (pc' = "CheckQuota" \/ exc' = "KeyboardInterrupt")
       /\ (pc' \in FinalPcs) => exc' = "KeyboardInterrupt"]_vars

\* C2 witness: a failed publish has been caught and the loop is in its
\* 60-second sleep.
C2_Witness == pc = "ErrorSleep" /\ exc = "PublishError" /\ tweet # None

\* C3 (Spec): tweet_count and last_tweet_time change only in the step after
\* a successful publish, which adds 1 to tweet_count and sets last_tweet_time
\* to the current time; that step is entered only from a publish that
\* returned.
C3_QuotaChangesOnlyOnRecord ==
    [][/\ (tweet_count' # tweet_count \/ last_tweet_time' # last_tweet_time)
             => pc = "RecordSuccess"
       /\ (pc = "RecordSuccess" /\ pc' # pc /\ pc' \notin FinalPcs)
             => /\ tweet_count' = tweet_count + 1
                /\ last_tweet_time' = now
                /\ pc' = "Prompt"
       /\ (pc' = "RecordSuccess" /\ pc # "RecordSuccess")
             => pc = "PostTweet" /\ exc' = "none"]_vars

\* C3 witness: a post has been recorded after the clock moved to a new month.
C3_Witness ==
    /\ pc = "Prompt"
    /\ tweet_count = 1
    /\ last_tweet_time = now
    /\ Month(now) # Month(LastOfMarch)

\* C4 (SpecRate): check_rate_limits returns False exactly when tweet_count is
\* at least 1500 and the current month equals the month of last_tweet_time;
\* the check right after construction returns True on every start date.
C4_RateLimitIff ==
    pc = "returned" =>
       /\ allowed = FALSE <=>
             (tweet_count >= MonthlyLimit
              /\ Month(now) = Month(last_tweet_time))
       /\ (tweet_count = 0 /\ last_tweet_time = MinusDays(now, AnchorDays))
             => allowed = TRUE

\* C4 witness: the check has denied a count of exactly 1500 in the month of
\* the last post.
C4_Witness ==
    /\ pc = "returned"
    /\ allowed = FALSE
    /\ tweet_count = MonthlyLimit

\* C5 (SpecQuota): a denied quota check leads to the 3600-second sleep and
\* back to the quota check; neither step changes the category, the queue,
\* tweet_count or last_tweet_time, requests a refill, pops a topic, drafts or
\* publishes.
C5_DeniedChangesNothing ==
    [][/\ (pc = "CheckQuota" /\ pc' # pc /\ tweet_count >= MonthlyLimit
           /\ Month(now) = Month(last_tweet_time))
             => (pc' = "QuotaSleep" \/ exc' = "KeyboardInterrupt")
       /\ (pc = "QuotaSleep" /\ pc' # pc)
             => (pc' = "CheckQuota" \/ exc' = "KeyboardInterrupt")
       /\ (pc = "QuotaSleep" \/ pc' = "QuotaSleep")
             => /\ UNCHANGED <<category, current_topics, tweet_count,
                               last_tweet_time, brainstorm, batch, popped>>
                /\ current_topic' = None
                /\ tweet' = None]_vars

\* C5 witness: the quota check has denied and the loop is in the 3600-second
\* sleep with the queue as it was.
C5_Witness ==
    /\ pc = "QuotaSleep"
    /\ allowed = FALSE
    /\ tweet_count = MonthlyLimit
    /\ current_topics = <<>>
    /\ popped = batch

\* C6 (Spec): a KeyboardInterrupt delivered while run() is in its loop ends
\* run() normally ("Stopped"); it never leaves run() as an exception.
C6_InterruptStopsCleanly ==
    (Running /\ exc = "KeyboardInterrupt") => pc = "Stopped"

\* C7 as stated (Spec): when the brainstorm call raises, the queue holds the
\* ten canned topics of the category and the iteration goes on.
C7_RaiseFallsBackToCanned ==
    LastCallRaised =>
       /\ exc # "GenerationError"
       /\ popped \o current_topics = CannedTopics(brainstorm.category)

\* C7 amended (Spec): when the brainstorm call raises, the queue stays empty
\* and the iteration ends in the 60-second sleep with no topic popped and no
\* draft; when the text of the model fails JSON parsing, the queue gets the
\* ten canned topics and the iteration drafts and publishes for the first.
C7_RaisePropagatesCannedOnJsonError ==
    /\ LastCallRaised =>
          /\ current_topics = <<>>
          /\ current_topic = None
          /\ tweet = None
          /\ pc \in {"ErrorSleep", "CheckQuota", "QuotaSleep", "RefreshTopics"}
                    \cup FinalPcs
          /\ pc = "ErrorSleep" => exc = "GenerationError"
    /\ LastCallUnparseable =>
          /\ batch = CannedTopics(brainstorm.category)
          /\ Len(batch) = DefaultNumTopics
          /\ (pc = "GenerateTweet" /\ Len(popped) = 1)
                => current_topic = <<brainstorm.category, "trends 2024">>
          /\ (pc \in {"PostTweet", "RecordSuccess"} /\ Len(popped) = 1)
                => tweet.topic = <<brainstorm.category, "trends 2024">>

\* C7 witness: the brainstorm call for "space exploration" has raised and
\* the loop is in its 60-second sleep.
C7_Witness ==
    /\ LastCallRaised
    /\ brainstorm.category = "space exploration"
    /\ pc = "ErrorSleep"
    /\ exc = "GenerationError"
    /\ tweet_count = 0

\* C8 (SpecTopics): when json.loads rejects the text of the model,
\* generate_topics(C, N) returns exactly N topics, the first being
\* "C trends 2024".
C8_FallbackHasRequestedCount ==
    pc = "canned" =>
       /\ exc = "none"
       /\ Len(current_topics) = brainstorm.num_topics
       /\ current_topics[1] = <<brainstorm.category, "trends 2024">>

\* C9 (SpecTopics): a list that generate_topics(C, N) takes from the text of
\* the model (parsed as JSON or split into lines) has at most N topics.
C9_GeneratorPathAtMostN ==
    pc \in {"json", "lines"} => Len(current_topics) <= brainstorm.num_topics

\* C10 (Spec): the topics popped since the last refill are, in order, the
\* first topics of the list that refill returned, the queue holds the rest of
\* that list (or nothing after a category change), and the topic in hand is
\* the one popped last.
C10_FifoExactlyOnce ==
    /\ IsPrefix(popped, batch)
    /\ \/ current_topics = SubSeq(batch, Len(popped) + 1, Len(batch))
       \/ current_topics = <<>>
    /\ pc = "GenerateTweet" => current_topic = popped[Len(popped)]

\* C10 witness: both topics of the list ["A","B"] have been popped.
C10_Witness ==
    /\ batch = << <<"A">>, <<"B">> >>
    /\ popped = batch
    /\ pc = "GenerateTweet"
    /\ current_topic = <<"B">>

\* C11 (Spec): a category change empties the queue; whenever the queue holds
\* a topic, the last brainstorm call returned and was made for the current
\* category; a topic that is drafted or published was popped from the list
\* brainstormed for the current category and is drafted with that category as
\* its context.
C11_QueueIsForCurrentCategory ==
    [][/\ (pc = "NewCategory" /\ pc' = "HourSleep") => current_topics' = <<>>
       /\ category' # category => current_topics' = <<>>
       /\ current_topics' # <<>> =>
             /\ brainstorm'.category = category'
             /\ ~brainstorm'.response.raises
       /\ pc' \in {"GenerateTweet", "PostTweet", "RecordSuccess"} =>
             /\ brainstorm'.category = category'
             /\ popped' # <<>>
             /\ IsPrefix(popped', batch')
             /\ current_topic' = popped'[Len(popped')]
       /\ pc' \in {"PostTweet", "RecordSuccess"} =>
             /\ tweet'.topic = current_topic'
             /\ tweet'.context = category']_vars

\* C11 witness: the category has been changed while topics brainstormed for
\* the category before were pending, and the queue is empty.
C11_Witness ==
    /\ pc = "HourSleep"
    /\ brainstorm.category = "fitness"
    /\ category = "space exploration"
    /\ Len(popped) < Len(batch)
    /\ current_topics = <<>>

\* C12 (Spec): when post_tweet raises, run() goes to the 60-second sleep with
\* tweet_count, last_tweet_time and the queue as they were; the topic of the
\* failed post stays popped, the queue holding exactly the topics brainstormed
\* after it; from the sleep run() goes to the quota check of the next
\* iteration, again without changing them.
C12_PublishFailureLosesTopic ==
    [][/\ (exc' = "PublishError" /\ exc # "PublishError") =>
             /\ pc = "PostTweet"
             /\ pc' = "ErrorSleep"
             /\ UNCHANGED <<tweet_count, last_tweet_time, current_topics,
                            popped, batch, month_posts>>
             /\ popped # <<>>
             /\ popped[Len(popped)] = tweet.topic
             /\ current_topics' = SubSeq(batch, Len(popped) + 1, Len(batch))
       /\ (pc = "ErrorSleep" /\ exc = "PublishError" /\ pc' # pc) =>
             /\ pc' = "CheckQuota" \/ exc' = "KeyboardInterrupt"
             /\ UNCHANGED <<tweet_count, last_tweet_time, current_topics,
                            popped, batch>>]_vars

\* C12 witness: the post for the first of two brainstormed topics has failed;
\* the loop is in its 60-second sleep, nothing is recorded and the queue holds
\* the second topic only.
C12_Witness ==
    /\ pc = "ErrorSleep"
    /\ exc = "PublishError"
    /\ tweet_count = 0
    /\ batch = << <<"A">>, <<"B">> >>
    /\ popped = << <<"A">> >>
    /\ current_topics = << <<"B">> >>

\* C13 (Spec): when a publish call has just succeeded, time.sleep(3600) has
\* returned since the post before it was recorded: two consecutive posts of
\* one run are at least one hour-long sleep apart.
C13_HourSleepBetweenPosts ==
    pc = "RecordSuccess" => hour_slept

\* C14 (Spec): the text handed to post_tweet has at most 280 characters: a
\* draft of more than 280 characters is cut to its first 277 characters
\* followed by "...", 280 characters in all, and a draft of at most 280
\* characters is handed over as it is.
C14_PublishedTextAtMost280 ==
    pc \in {"PostTweet", "RecordSuccess"} =>
       /\ TextLen(tweet.text) <= TweetLimit
       /\ tweet.drafted > TweetLimit =>
             /\ tweet.text = [kept |-> KeepChars, ellipsis |-> TRUE]
             /\ TextLen(tweet.text) = TweetLimit
       /\ tweet.drafted <= TweetLimit =>
             tweet.text = [kept |-> tweet.drafted, ellipsis |-> FALSE]

\* C14 witness: a draft of 281 characters has been cut and published.
C14_Witness ==
    /\ pc = "RecordSuccess"
    /\ tweet.drafted = TweetLimit + 1
    /\ TextLen(tweet.text) = TweetLimit
    /\ tweet.text.ellipsis

\* the credentials with no usable value: unset or empty
AbsentCredentials == {k \in EnvVars : environ[k] \in {"unset", ""}}

\* the loop has not been entered: no category read, no call to the model or
\* to the client, nothing recorded
LoopUntouched ==
    /\ category = ""
    /\ brainstorm = NoCall
    /\ current_topics = <<>>
    /\ current_topic = None
    /\ tweet = None
    /\ tweet_count = 0

\* C15 (SpecSetup): when a credential is absent, load_environment ends the
\* process with an error naming exactly the absent credentials; when a
\* constructor raises, the process ends as well; a process ended during setup
\* takes no further step, and it never entered the loop, read a category,
\* brainstormed, drafted or published.
C15_SetupFailureIsFatal ==
    [][/\ pc # "FatalInit"
       /\ (pc = "load_environment" /\ AbsentCredentials # {}) =>
             /\ pc' = "FatalInit"
             /\ fatal' = [error |-> "ValueError", names |-> AbsentCredentials]
       /\ (pc = "load_environment" /\ AbsentCredentials = {}) =>
             pc' = "setup_twitter_client"
       /\ exc' = "SetupError" =>
             /\ pc \in {"setup_twitter_client", "setup_llm", "setup_agent"}
             /\ pc' = "FatalInit"
       /\ pc' = "FatalInit" => LoopUntouched'
       /\ pc' \in TryPcs => (AbsentCredentials = {} /\ fatal' = None)]_vars

\* C15 witness: with one credential empty and one unset the process has ended
\* in load_environment, the error naming these two.
C15_Witness ==
    /\ pc = "FatalInit"
    /\ environ["TWITTER_CONSUMER_KEY"] = ""
    /\ environ["TWITTER_ACCESS_TOKEN"] = "unset"
    /\ fatal = [error |-> "ValueError",
                names |-> {"TWITTER_CONSUMER_KEY", "TWITTER_ACCESS_TOKEN"}]
    /\ LoopUntouched

\* C16 (SpecQuota): no step of the program lowers tweet_count, a month
\* boundary and the quota check after it included.
C16_CountNeverDecreases ==
    [][tweet_count' >= tweet_count]_vars

\* C16 witness: the month has changed after the 1500th post, the quota check
\* has passed again and tweet_count is still 1500.
C16_Witness ==
    /\ pc = "RefreshTopics"
    /\ allowed = TRUE
    /\ tweet_count = MonthlyLimit
    /\ Month(now) # Month(last_tweet_time)

\* C17 (SpecQuota): the number of posts recorded within one calendar month
\* never exceeds 1500.
C17_MonthlyCapHolds ==
    month_posts <= MonthlyLimit

\* C17 witness: 1500 posts have been recorded within one month and the quota
\* check denies the next.
C17_Witness ==
    /\ month_posts = MonthlyLimit
    /\ pc = "QuotaSleep"
    /\ allowed = FALSE

\* posts recorded before the current month began
PostsBeforeThisMonth == tweet_count - month_posts

\* C18 (SpecQuota): in a month that began with tweet_count at 1500 or more,
\* at most one post is recorded: once a post has been recorded in it,
\* last_tweet_time lies in that month and every quota check of the month is
\* denied.
C18_OnePostPerLaterMonth ==
    [][/\ PostsBeforeThisMonth' >= MonthlyLimit => month_posts' <= 1
       /\ (PostsBeforeThisMonth >= MonthlyLimit /\ month_posts >= 1) =>
             /\ Month(last_tweet_time) = Month(now)
             /\ (pc = "CheckQuota" /\ pc' # pc) =>
                   (pc' = "QuotaSleep" \/ exc' = "KeyboardInterrupt")]_vars

\* C18 witness: the month after the one of the 1500th post has had its one
\* post, the 1501st, and the quota check has denied the next.
C18_Witness ==
    /\ tweet_count = MonthlyLimit + 1
    /\ PostsBeforeThisMonth = MonthlyLimit
    /\ month_posts = 1
    /\ pc = "QuotaSleep"
    /\ allowed = FALSE

\* C19 (Spec): generate_topics is called for a refill only when the queue is
\* empty, so a refill discards no pending topic; the queue changes only by a
\* refill of the empty queue, by the pop of its head, and by being emptied
\* on a category change.
C19_RefillOnlyWhenEmpty ==
    [][/\ (batch' # batch \/ brainstorm' # brainstorm) =>
             (pc = "RefreshTopics" /\ current_topics = <<>>)
       /\ (pc = "RefreshTopics" /\ current_topics # <<>>) =>
             UNCHANGED <<current_topics, batch, brainstorm, popped>>
       /\ current_topics' # current_topics =>
             \/ /\ pc = "RefreshTopics"
                /\ current_topics = <<>>
                /\ current_topics' = batch'
             \/ /\ pc = "PopTopic"
                /\ current_topics' = Tail(current_topics)
                /\ current_topic' = Head(current_topics)
             \/ /\ pc = "NewCategory"
                /\ current_topics' = <<>>]_vars

\* C19 witness: the refresh step of the second iteration has run with a topic
\* pending and has left the queue as it was, no call being made.
C19_Witness ==
    /\ pc = "PopTopic"
    /\ tweet_count = 1
    /\ batch = << <<"A">>, <<"B">> >>
    /\ popped = << <<"A">> >>
    /\ current_topics = << <<"B">> >>

\* C20 (SpecLive): with no KeyboardInterrupt and tweet_count below the limit,
\* once the model returns at least one topic on every brainstorm call,
\* generate_tweet and post_tweet return and input() returns a line, posts
\* keep being published: tweet_count goes on rising until it reaches the
\* MaxPosts posts the model lets a run record.
C20_PostsKeepComing ==
    ~failing ~> (tweet_count = MaxPosts)

\* C20 witness: the environment has stopped failing and MaxPosts posts have
\* been recorded, the last one in this state's iteration.
C20_Witness ==
    /\ ~failing
    /\ tweet_count = MaxPosts
    /\ month_posts = MaxPosts
    /\ pc = "Prompt"

====
